---- MODULE Spec2Model ----
(***************************************************************************)
(* In-memory book repository (model/bookRepository) and the HTTP layer     *)
(* that drives it (express handlers for /api/books and /api/books/:id).    *)
(*                                                                         *)
(* JavaScript strings are sequences of character codes, so that            *)
(* toLowerCase, includes, String(number) and parseInt are computed on the  *)
(* characters.  An optional value (a query parameter or a body property    *)
(* that may be absent) is a sequence of length 0 (absent/undefined) or 1   *)
(* (present).  Requests carry values of the declared types of              *)
(* interfaces/http.ts: strings for title, author and isbn, numbers for     *)
(* yearOfRelease, strings for every query and route parameter.             *)
(***************************************************************************)
EXTENDS Integers, Sequences, FiniteSets, TLC

VARIABLES books, nextBookId, assignedIds, req, res, call

vars == <<books, nextBookId, assignedIds, req, res, call>>

-----------------------------------------------------------------------------
(* Bounds of the model *)

\* number of books that may be created on top of the preloaded ones
MaxCreates == 2

-----------------------------------------------------------------------------
(* Optional values *)

Absent == <<>>

Present(v) == <<v>>

IsPresent(o) == Len(o) = 1

-----------------------------------------------------------------------------
(* JavaScript string and number primitives *)

\* variant: no case conversion
ToLowerCase_identity(s) == s

\* an uppercase ASCII letter maps to its lowercase letter, others unchanged
ToLowerCase(s) ==
   [i \in 1..Len(s) |-> IF s[i] >= 65 /\ s[i] <= 90 THEN s[i] + 32 ELSE s[i]]

\* String.prototype.includes: sub occurs in s at some position
Includes(s, sub) ==
   \E i \in 0..(Len(s) - Len(sub)) : SubSeq(s, i + 1, i + Len(sub)) = sub

RECURSIVE DigitsOf(_)
\* decimal digits of a non-negative integer, most significant first
DigitsOf(n) ==
   IF n < 10 THEN <<48 + n>> ELSE Append(DigitsOf(n \div 10), 48 + (n % 10))

\* String(n) for an integer n
NumberToString(n) ==
   IF n < 0 THEN <<45>> \o DigitsOf(0 - n) ELSE DigitsOf(n)

IsWhiteSpace(c) == c \in {9, 10, 11, 12, 13, 32}

IsDigit(c) == c >= 48 /\ c <= 57

RECURSIVE SkipWhiteSpace(_)
SkipWhiteSpace(s) ==
   IF s # <<>> /\ IsWhiteSpace(Head(s)) THEN SkipWhiteSpace(Tail(s)) ELSE s

RECURSIVE DigitPrefixValue(_, _)
\* value of the longest prefix of decimal digits of s, continuing from acc
DigitPrefixValue(s, acc) ==
   IF s # <<>> /\ IsDigit(Head(s))
   THEN DigitPrefixValue(Tail(s), acc * 10 + (Head(s) - 48))
   ELSE acc

NaN == [isNaN |-> TRUE, value |-> 0]

\* parseInt(s, 10): leading white space, an optional sign, then the longest
\* run of digits; NaN when there is no digit at that place
ParseInt(s) ==
   LET t == SkipWhiteSpace(s)
       signed == t # <<>> /\ Head(t) \in {43, 45}
       u == IF signed THEN Tail(t) ELSE t
       magnitude == DigitPrefixValue(u, 0)
   IN IF u = <<>> \/ ~IsDigit(Head(u)) THEN NaN
      ELSE [isNaN |-> FALSE,
            value |-> IF signed /\ Head(t) = 45 THEN 0 - magnitude ELSE magnitude]

IsNaN(x) == x.isNaN

\* variant: Math.floor(a / b)
CeilDiv_floor(a, b) == a \div b

\* Math.ceil(a / b) for integers a >= 0 and b >= 1
CeilDiv(a, b) == IF a % b = 0 THEN a \div b ELSE (a \div b) + 1

\* Array.prototype.slice(start, end): a negative index counts from the end,
\* both indices are clamped to the array (0-based, end exclusive)
Slice(s, start, end) ==
   LET len == Len(s)
       Clamp(k) == IF k < 0 THEN (IF len + k < 0 THEN 0 ELSE len + k)
                   ELSE (IF k > len THEN len ELSE k)
       from == Clamp(start)
       to == Clamp(end)
   IN IF from >= to THEN <<>> ELSE SubSeq(s, from + 1, to)

\* Array.prototype.findIndex, 1-based; 0 stands for JavaScript's -1
RECURSIVE FindIndexFrom(_, _, _)
FindIndexFrom(s, id, i) ==
   IF i > Len(s) THEN 0
   ELSE IF s[i].id = id THEN i ELSE FindIndexFrom(s, id, i + 1)

FindIndex(s, id) == FindIndexFrom(s, id, 1)

SetMax(S) == CHOOSE m \in S : \A x \in S : x <= m

-----------------------------------------------------------------------------
(* model/bookRepository: the preloaded list *)

InitialBooks ==
   <<
      \* 101: "The Great Gatsby", "F. Scott Fitzgerald", 1925, "978-0743273565", false
      [id |-> 101, title |-> <<84,104,101,32,71,114,101,97,116,32,71,97,116,115,98,121>>,
       author |-> <<70,46,32,83,99,111,116,116,32,70,105,116,122,103,101,114,97,108,100>>,
       yearOfRelease |-> 1925, isbn |-> <<57,55,56,45,48,55,52,51,50,55,51,53,54,53>>, isBorrowed |-> FALSE],
      \* 102: "To Kill a Mockingbird", "Harper Lee", 1960, "978-0061120084", true
      [id |-> 102, title |-> <<84,111,32,75,105,108,108,32,97,32,77,111,99,107,105,110,103,98,105,114,100>>,
       author |-> <<72,97,114,112,101,114,32,76,101,101>>,
       yearOfRelease |-> 1960, isbn |-> <<57,55,56,45,48,48,54,49,49,50,48,48,56,52>>, isBorrowed |-> TRUE],
      \* 103: "1984", "George Orwell", 1949, "978-0451524935", false
      [id |-> 103, title |-> <<49,57,56,52>>,
       author |-> <<71,101,111,114,103,101,32,79,114,119,101,108,108>>,
       yearOfRelease |-> 1949, isbn |-> <<57,55,56,45,48,52,53,49,53,50,52,57,51,53>>, isBorrowed |-> FALSE],
      \* 104: "The Hobbit", "J.R.R. Tolkien", 1937, "978-0618260300", false
      [id |-> 104, title |-> <<84,104,101,32,72,111,98,98,105,116>>,
       author |-> <<74,46,82,46,82,46,32,84,111,108,107,105,101,110>>,
       yearOfRelease |-> 1937, isbn |-> <<57,55,56,45,48,54,49,56,50,54,48,51,48,48>>, isBorrowed |-> FALSE],
      \* 105: "Dune", "Frank Herbert", 1965, "978-0441172719", true
      [id |-> 105, title |-> <<68,117,110,101>>,
       author |-> <<70,114,97,110,107,32,72,101,114,98,101,114,116>>,
       yearOfRelease |-> 1965, isbn |-> <<57,55,56,45,48,52,52,49,49,55,50,55,49,57>>, isBorrowed |-> TRUE],
      \* 106: "A Game of Thrones", "George R.R. Martin", 1996, "978-0553103540", false
      [id |-> 106, title |-> <<65,32,71,97,109,101,32,111,102,32,84,104,114,111,110,101,115>>,
       author |-> <<71,101,111,114,103,101,32,82,46,82,46,32,77,97,114,116,105,110>>,
       yearOfRelease |-> 1996, isbn |-> <<57,55,56,45,48,53,53,51,49,48,51,53,52,48>>, isBorrowed |-> FALSE],
      \* 107: "The Fellowship of the Ring", "J.R.R. Tolkien", 1954, "978-0618346257", true
      [id |-> 107, title |-> <<84,104,101,32,70,101,108,108,111,119,115,104,105,112,32,111,102,32,116,104,101,32,82,105,110,103>>,
       author |-> <<74,46,82,46,82,46,32,84,111,108,107,105,101,110>>,
       yearOfRelease |-> 1954, isbn |-> <<57,55,56,45,48,54,49,56,51,52,54,50,53,55>>, isBorrowed |-> TRUE],
      \* 108: "A Thousand Splendid Suns", "Khaled Hosseini", 2007, "978-1594489501", false
      [id |-> 108, title |-> <<65,32,84,104,111,117,115,97,110,100,32,83,112,108,101,110,100,105,100,32,83,117,110,115>>,
       author |-> <<75,104,97,108,101,100,32,72,111,115,115,101,105,110,105>>,
       yearOfRelease |-> 2007, isbn |-> <<57,55,56,45,49,53,57,52,52,56,57,53,48,49>>, isBorrowed |-> FALSE],
      \* 109: "The Martian", "Andy Weir", 2011, "978-0804139021", true
      [id |-> 109, title |-> <<84,104,101,32,77,97,114,116,105,97,110>>,
       author |-> <<65,110,100,121,32,87,101,105,114>>,
       yearOfRelease |-> 2011, isbn |-> <<57,55,56,45,48,56,48,52,49,51,57,48,50,49>>, isBorrowed |-> TRUE],
      \* 110: "Where the Crawdads Sing", "Delia Owens", 2018, "978-0735219090", false
      [id |-> 110, title |-> <<87,104,101,114,101,32,116,104,101,32,67,114,97,119,100,97,100,115,32,83,105,110,103>>,
       author |-> <<68,101,108,105,97,32,79,119,101,110,115>>,
       yearOfRelease |-> 2018, isbn |-> <<57,55,56,45,48,55,51,53,50,49,57,48,57,48>>, isBorrowed |-> FALSE],
      \* 111: "Gone Girl", "Gillian Flynn", 2012, "978-0307588371", false
      [id |-> 111, title |-> <<71,111,110,101,32,71,105,114,108>>,
       author |-> <<71,105,108,108,105,97,110,32,70,108,121,110,110>>,
       yearOfRelease |-> 2012, isbn |-> <<57,55,56,45,48,51,48,55,53,56,56,51,55,49>>, isBorrowed |-> FALSE],
      \* 112: "The Silent Patient", "Alex Michaelides", 2019, "978-1250301691", true
      [id |-> 112, title |-> <<84,104,101,32,83,105,108,101,110,116,32,80,97,116,105,101,110,116>>,
       author |-> <<65,108,101,120,32,77,105,99,104,97,101,108,105,100,101,115>>,
       yearOfRelease |-> 2019, isbn |-> <<57,55,56,45,49,50,53,48,51,48,49,54,57,49>>, isBorrowed |-> TRUE],
      \* 113: "The Nightingale", "Kristin Hannah", 2015, "978-0312577239", false
      [id |-> 113, title |-> <<84,104,101,32,78,105,103,104,116,105,110,103,97,108,101>>,
       author |-> <<75,114,105,115,116,105,110,32,72,97,110,110,97,104>>,
       yearOfRelease |-> 2015, isbn |-> <<57,55,56,45,48,51,49,50,53,55,55,50,51,57>>, isBorrowed |-> FALSE],
      \* 114: "The Book Thief", "Markus Zusak", 2005, "978-0375842207", false
      [id |-> 114, title |-> <<84,104,101,32,66,111,111,107,32,84,104,105,101,102>>,
       author |-> <<77,97,114,107,117,115,32,90,117,115,97,107>>,
       yearOfRelease |-> 2005, isbn |-> <<57,55,56,45,48,51,55,53,56,52,50,50,48,55>>, isBorrowed |-> FALSE],
      \* 115: "The Old Man and the Sea", "Ernest Hemingway", 1952, "978-0684801223", true
      [id |-> 115, title |-> <<84,104,101,32,79,108,100,32,77,97,110,32,97,110,100,32,116,104,101,32,83,101,97>>,
       author |-> <<69,114,110,101,115,116,32,72,101,109,105,110,103,119,97,121>>,
       yearOfRelease |-> 1952, isbn |-> <<57,55,56,45,48,54,56,52,56,48,49,50,50,51>>, isBorrowed |-> TRUE],
      \* 116: "Of Mice and Men", "John Steinbeck", 1937, "978-0140177398", false
      [id |-> 116, title |-> <<79,102,32,77,105,99,101,32,97,110,100,32,77,101,110>>,
       author |-> <<74,111,104,110,32,83,116,101,105,110,98,101,99,107>>,
       yearOfRelease |-> 1937, isbn |-> <<57,55,56,45,48,49,52,48,49,55,55,51,57,56>>, isBorrowed |-> FALSE],
      \* 117: "The Hunger Games", "Suzanne Collins", 2008, "978-0439023528", false
      [id |-> 117, title |-> <<84,104,101,32,72,117,110,103,101,114,32,71,97,109,101,115>>,
       author |-> <<83,117,122,97,110,110,101,32,67,111,108,108,105,110,115>>,
       yearOfRelease |-> 2008, isbn |-> <<57,55,56,45,48,52,51,57,48,50,51,53,50,56>>, isBorrowed |-> FALSE],
      \* 118: "The Maze Runner", "James Dashner", 2009, "978-0385737944", true
      [id |-> 118, title |-> <<84,104,101,32,77,97,122,101,32,82,117,110,110,101,114>>,
       author |-> <<74,97,109,101,115,32,68,97,115,104,110,101,114>>,
       yearOfRelease |-> 2009, isbn |-> <<57,55,56,45,48,51,56,53,55,51,55,57,52,52>>, isBorrowed |-> TRUE],
      \* 119: "The Two Towers", "J.R.R. Tolkien", 1954, "978-0618346264", false
      [id |-> 119, title |-> <<84,104,101,32,84,119,111,32,84,111,119,101,114,115>>,
       author |-> <<74,46,82,46,82,46,32,84,111,108,107,105,101,110>>,
       yearOfRelease |-> 1954, isbn |-> <<57,55,56,45,48,54,49,56,51,52,54,50,54,52>>, isBorrowed |-> FALSE],
      \* 120: "Fahrenheit 451", "Ray Bradbury", 1953, "978-1451673319", false
      [id |-> 120, title |-> <<70,97,104,114,101,110,104,101,105,116,32,52,53,49>>,
       author |-> <<82,97,121,32,66,114,97,100,98,117,114,121>>,
       yearOfRelease |-> 1953, isbn |-> <<57,55,56,45,49,52,53,49,54,55,51,51,49,57>>, isBorrowed |-> FALSE]
   >>


-----------------------------------------------------------------------------
(* model/bookRepository: functions.  Each takes the module state it reads   *)
(* (the list, the counter) as arguments and returns the new state with the  *)
(* function's return value in ret.                                          *)

\* variant: the counter is seeded from the number of preloaded records
InitialNextBookId_fromLength == Len(InitialBooks) + 1

\* let nextBookId = Math.max(...books.map(b => b.id)) + 1
InitialNextBookId == SetMax({InitialBooks[i].id : i \in 1..Len(InitialBooks)}) + 1

\* variant: a string counts as soon as it is defined, empty or not
TruthyString_definedOnly(o) == IsPresent(o)

\* JavaScript truthiness of an optional string / an optional number
TruthyString(o) == IsPresent(o) /\ o[1] # <<>>

TruthyNumber(o) == IsPresent(o) /\ o[1] # 0

\* variant: the payload is spread into the record, so a client's isBorrowed
\* is kept
createBook_spreadsPayload(data, id) ==
   [id |-> id,
    title |-> data.title[1],
    author |-> data.author[1],
    yearOfRelease |-> data.yearOfRelease[1],
    isbn |-> data.isbn[1],
    isBorrowed |-> IF IsPresent(data.isBorrowed) THEN data.isBorrowed[1] ELSE FALSE]

\* data is the creation payload, id the value of nextBookId++
createBook(data, id) ==
   [id |-> id,
    title |-> data.title[1],
    author |-> data.author[1],
    yearOfRelease |-> data.yearOfRelease[1],
    isbn |-> data.isbn[1],
    isBorrowed |-> FALSE]

\* id is the string of the route parameter; the result is optional
getBookById(bs, id) ==
   LET bookId == ParseInt(id)
       index == FindIndex(bs, bookId.value)
   IN IF IsNaN(bookId) THEN Absent
      ELSE IF index = 0 THEN Absent ELSE Present(bs[index])

addBook(bs, next, bookData) ==
   LET newBook == createBook(bookData, next)
   IN [books |-> Append(bs, newBook), nextBookId |-> next + 1, ret |-> newBook]

\* variant: a property that is present overwrites, falsy or not
updateBook_presentOverwrites(bs, id, updateData) ==
   LET index == FindIndex(bs, id)
       old == bs[index]
       merged == [id |-> old.id,
                  title |-> IF IsPresent(updateData.title)
                            THEN updateData.title[1] ELSE old.title,
                  author |-> IF IsPresent(updateData.author)
                             THEN updateData.author[1] ELSE old.author,
                  yearOfRelease |-> IF IsPresent(updateData.yearOfRelease)
                                    THEN updateData.yearOfRelease[1]
                                    ELSE old.yearOfRelease,
                  isbn |-> IF IsPresent(updateData.isbn)
                           THEN updateData.isbn[1] ELSE old.isbn,
                  isBorrowed |-> old.isBorrowed]
   IN IF index = 0 THEN [books |-> bs, ret |-> Absent]
      ELSE [books |-> [bs EXCEPT ![index] = merged], ret |-> Present(merged)]

\* ret is Absent for null
updateBook(bs, id, updateData) ==
   LET index == FindIndex(bs, id)
       old == bs[index]
       merged == [id |-> old.id,
                  title |-> IF TruthyString(updateData.title)
                            THEN updateData.title[1] ELSE old.title,
                  author |-> IF TruthyString(updateData.author)
                             THEN updateData.author[1] ELSE old.author,
                  yearOfRelease |-> IF TruthyNumber(updateData.yearOfRelease)
                                    THEN updateData.yearOfRelease[1]
                                    ELSE old.yearOfRelease,
                  isbn |-> IF TruthyString(updateData.isbn)
                           THEN updateData.isbn[1] ELSE old.isbn,
                  isBorrowed |-> old.isBorrowed]
   IN IF index = 0 THEN [books |-> bs, ret |-> Absent]
      ELSE [books |-> [bs EXCEPT ![index] = merged], ret |-> Present(merged)]

\* variant: the filter keeps every record whose id is above the given one
deleteBook_keepsAbove(bs, id) ==
   LET Keep(b) == b.id > id
       remaining == SelectSeq(bs, Keep)
   IN [books |-> remaining, ret |-> Len(remaining) < Len(bs)]

deleteBook(bs, id) ==
   LET Keep(b) == b.id # id
       remaining == SelectSeq(bs, Keep)
   IN [books |-> remaining, ret |-> Len(remaining) < Len(bs)]

Str_true == <<116, 114, 117, 101>>

\* variant: the year filter compares numbers, not strings
getBooksPaginatedAndFiltered_numericYear(bs, filters, page, pageSize) ==
   LET TitleOk(b) == Includes(ToLowerCase(b.title), ToLowerCase(filters.title[1]))
       AuthorOk(b) == Includes(ToLowerCase(b.author), ToLowerCase(filters.author[1]))
       YearOk(b) == /\ ~IsNaN(ParseInt(filters.year[1]))
                    /\ ParseInt(filters.year[1]).value = b.yearOfRelease
       isBorrowedBool == ToLowerCase(filters.isBorrowed[1]) = Str_true
       BorrowedOk(b) == b.isBorrowed = isBorrowedBool
       f1 == IF TruthyString(filters.title) THEN SelectSeq(bs, TitleOk) ELSE bs
       f2 == IF TruthyString(filters.author) THEN SelectSeq(f1, AuthorOk) ELSE f1
       f3 == IF TruthyString(filters.year) THEN SelectSeq(f2, YearOk) ELSE f2
       filteredBooks == IF IsPresent(filters.isBorrowed)
                        THEN SelectSeq(f3, BorrowedOk) ELSE f3
       totalItems == Len(filteredBooks)
       totalPages == CeilDiv(totalItems, pageSize)
       startIndex == (page - 1) * pageSize
       endIndex == startIndex + pageSize
   IN [books |-> Slice(filteredBooks, startIndex, endIndex),
       pagination |-> [totalItems |-> totalItems,
                       totalPages |-> totalPages,
                       currentPage |-> page,
                       pageSize |-> pageSize]]

getBooksPaginatedAndFiltered(bs, filters, page, pageSize) ==
   LET TitleOk(b) == Includes(ToLowerCase(b.title), ToLowerCase(filters.title[1]))
       AuthorOk(b) == Includes(ToLowerCase(b.author), ToLowerCase(filters.author[1]))
       YearOk(b) == NumberToString(b.yearOfRelease) = filters.year[1]
       isBorrowedBool == ToLowerCase(filters.isBorrowed[1]) = Str_true
       BorrowedOk(b) == b.isBorrowed = isBorrowedBool
       f1 == IF TruthyString(filters.title) THEN SelectSeq(bs, TitleOk) ELSE bs
       f2 == IF TruthyString(filters.author) THEN SelectSeq(f1, AuthorOk) ELSE f1
       f3 == IF TruthyString(filters.year) THEN SelectSeq(f2, YearOk) ELSE f2
       filteredBooks == IF IsPresent(filters.isBorrowed)
                        THEN SelectSeq(f3, BorrowedOk) ELSE f3
       totalItems == Len(filteredBooks)
       totalPages == CeilDiv(totalItems, pageSize)
       startIndex == (page - 1) * pageSize
       endIndex == startIndex + pageSize
   IN [books |-> Slice(filteredBooks, startIndex, endIndex),
       pagination |-> [totalItems |-> totalItems,
                       totalPages |-> totalPages,
                       currentPage |-> page,
                       pageSize |-> pageSize]]

-----------------------------------------------------------------------------
(* String literals of the HTTP layer and of the requests *)

\* "1"
Str_1 == <<49>>

\* "10"
Str_10 == <<49, 48>>

\* ""
Str_empty == <<>>

\* "2"
Str_2 == <<50>>

\* "9"
Str_9 == <<57>>

\* "0"
Str_0 == <<48>>

\* "x"
Str_x == <<120>>

\* "-3"
Str_minus3 == <<45, 51>>

\* "2abc"
Str_2abc == <<50, 97, 98, 99>>

\* "tolkien"
Str_tolkien == <<116, 111, 108, 107, 105, 101, 110>>

\* "hobbit"
Str_hobbit == <<104, 111, 98, 98, 105, 116>>

\* "THE"
Str_THE == <<84, 72, 69>>

\* "1954"
Str_1954 == <<49, 57, 53, 52>>

\* "01954"
Str_01954 == <<48, 49, 57, 53, 52>>

\* "TRUE"
Str_TRUE == <<84, 82, 85, 69>>

\* "false"
Str_false == <<102, 97, 108, 115, 101>>

\* "104"
Str_104 == <<49, 48, 52>>

\* "121"
Str_121 == <<49, 50, 49>>

\* "abc"
Str_abc == <<97, 98, 99>>

\* "12x"
Str_12x == <<49, 50, 120>>

\* "The Silmarillion"
Str_Silmarillion == <<84, 104, 101, 32, 83, 105, 108, 109, 97, 114, 105, 108, 108, 105, 111, 110>>

\* "J.R.R. TOLKIEN"
Str_TOLKIEN == <<74, 46, 82, 46, 82, 46, 32, 84, 79, 76, 75, 73, 69, 78>>

\* "i1"
Str_i1 == <<105, 49>>

\* "i2"
Str_i2 == <<105, 50>>

\* "Zed"
Str_Zed == <<90, 101, 100>>

\* "New"
Str_New == <<78, 101, 119>>

-----------------------------------------------------------------------------
(* Requests.  A request has a method, a route, the route parameter id, the  *)
(* query string and the JSON body; the parts a route does not use are empty.*)

NoQuery ==
   [title |-> Absent, author |-> Absent, year |-> Absent,
    isBorrowed |-> Absent, page |-> Absent, size |-> Absent]

NoBody ==
   [title |-> Absent, author |-> Absent, yearOfRelease |-> Absent,
    isbn |-> Absent, id |-> Absent, isBorrowed |-> Absent]

\* the filter part of a query string
FilterChoices ==
   LET F(t, a, y, b) == [title |-> t, author |-> a, year |-> y, isBorrowed |-> b]
   IN { F(Absent, Absent, Absent, Absent),
        F(Absent, Present(Str_tolkien), Absent, Absent),
        F(Present(Str_hobbit), Absent, Absent, Absent),
        F(Present(Str_THE), Absent, Absent, Present(Str_true)),
        F(Absent, Absent, Present(Str_1954), Absent),
        F(Absent, Absent, Present(Str_01954), Absent),
        F(Absent, Absent, Present(Str_empty), Absent),
        F(Present(Str_THE), Absent, Present(Str_empty), Present(Str_TRUE)),
        F(Present(Str_empty), Present(Str_empty), Absent, Present(Str_empty)),
        F(Absent, Absent, Absent, Present(Str_false)),
        F(Absent, Present(Str_tolkien), Present(Str_1954), Present(Str_false)) }

\* the page and size part of a query string
PagingChoices ==
   { <<Absent, Absent>>,
     <<Present(Str_1), Present(Str_2)>>,
     <<Present(Str_2), Present(Str_2)>>,
     <<Present(Str_9), Present(Str_2)>>,
     <<Present(Str_2), Absent>>,
     <<Present(Str_empty), Present(Str_empty)>>,
     <<Present(Str_0), Present(Str_2)>>,
     <<Present(Str_x), Present(Str_2)>>,
     <<Present(Str_1), Present(Str_0)>>,
     <<Present(Str_1), Present(Str_minus3)>>,
     <<Present(Str_1), Present(Str_2abc)>> }

MakeQuery(f, p) ==
   [title |-> f.title, author |-> f.author, year |-> f.year,
    isBorrowed |-> f.isBorrowed, page |-> p[1], size |-> p[2]]

\* query strings of GET /api/books
Queries ==
   { MakeQuery(f, p) : f \in FilterChoices,
                       p \in {<<Absent, Absent>>} }
   \cup
   { MakeQuery(f, p) : f \in {[title |-> Absent, author |-> Present(Str_tolkien),
                               year |-> Absent, isBorrowed |-> Absent]},
                       p \in PagingChoices }


\* route parameters of /api/books/:id
IdParams == {Str_104, Str_121, Str_0, Str_abc, Str_12x}

\* a complete creation payload; the client also sends id and isBorrowed
ValidCreation ==
   [title |-> Present(Str_Silmarillion), author |-> Present(Str_TOLKIEN),
    yearOfRelease |-> Present(1977), isbn |-> Present(Str_i1),
    id |-> Present(104), isBorrowed |-> Present(TRUE)]

\* bodies of POST /api/books
PostBodies ==
   { ValidCreation,
     [ValidCreation EXCEPT !.title = Present(Str_empty)],
     [ValidCreation EXCEPT !.author = Absent],
     [ValidCreation EXCEPT !.isbn = Present(Str_empty)],
     [ValidCreation EXCEPT !.isbn = Absent] }

\* bodies of PUT /api/books/:id
PutBodies ==
   { NoBody,
     [title |-> Present(Str_empty), author |-> Present(Str_Zed),
      yearOfRelease |-> Present(0), isbn |-> Present(Str_empty),
      id |-> Absent, isBorrowed |-> Absent],
     [title |-> Present(Str_New), author |-> Absent,
      yearOfRelease |-> Present(1999), isbn |-> Present(Str_i2),
      id |-> Present(999), isBorrowed |-> Present(TRUE)] }

-----------------------------------------------------------------------------
(* The HTTP layer *)

NoCall == [fn |-> "none"]

Response(status, body) == [status |-> status, body |-> body]

ErrorResponse(status, error) == Response(status, [error |-> error])

\* variant: only NaN is rejected
InvalidId_nanOnly(numericId) == IsNaN(numericId)

\* parseInt(id, 10) is NaN or below 1
InvalidId(numericId) == IsNaN(numericId) \/ numericId.value < 1

\* Object.keys(body).length === 0
HasNoKeys(body) == \A k \in DOMAIN body : ~IsPresent(body[k])

Init ==
   /\ books = InitialBooks
   /\ nextBookId = InitialNextBookId
   /\ assignedIds = {InitialBooks[i].id : i \in 1..Len(InitialBooks)}
   /\ req = [method |-> "none", route |-> "none", id |-> Str_empty,
             query |-> NoQuery, body |-> NoBody]
   /\ res = Response(0, [error |-> "none"])
   /\ call = NoCall

\* variant: page 0 passes the validation
GetBooks_pageZeroAllowed(query) ==
   LET pageNum == ParseInt(IF TruthyString(query.page) THEN query.page[1] ELSE Str_1)
       pageSize == ParseInt(IF TruthyString(query.size) THEN query.size[1] ELSE Str_10)
       filters == [title |-> query.title, author |-> query.author,
                   year |-> query.year, isBorrowed |-> query.isBorrowed]
       result == getBooksPaginatedAndFiltered(books, filters,
                                              pageNum.value, pageSize.value)
   IN /\ req' = [method |-> "GET", route |-> "/api/books", id |-> Str_empty,
                 query |-> query, body |-> NoBody]
      /\ IF IsNaN(pageNum) \/ pageNum.value < 0
         THEN /\ res' = ErrorResponse(400, "Invalid 'page' number provided")
              /\ call' = NoCall
         ELSE IF IsNaN(pageSize) \/ pageSize.value < 1
         THEN /\ res' = ErrorResponse(400, "Invalid 'size' (page size) provided")
              /\ call' = NoCall
         ELSE /\ res' = Response(200, result)
              /\ call' = [fn |-> "getBooksPaginatedAndFiltered",
                          args |-> <<filters, pageNum.value, pageSize.value>>,
                          ret |-> result]
      /\ UNCHANGED <<books, nextBookId, assignedIds>>

\* app.get('/api/books')
GetBooks(query) ==
   LET pageNum == ParseInt(IF TruthyString(query.page) THEN query.page[1] ELSE Str_1)
       pageSize == ParseInt(IF TruthyString(query.size) THEN query.size[1] ELSE Str_10)
       filters == [title |-> query.title, author |-> query.author,
                   year |-> query.year, isBorrowed |-> query.isBorrowed]
       result == getBooksPaginatedAndFiltered(books, filters,
                                              pageNum.value, pageSize.value)
   IN /\ req' = [method |-> "GET", route |-> "/api/books", id |-> Str_empty,
                 query |-> query, body |-> NoBody]
      /\ IF IsNaN(pageNum) \/ pageNum.value < 1
         THEN /\ res' = ErrorResponse(400, "Invalid 'page' number provided")
              /\ call' = NoCall
         ELSE IF IsNaN(pageSize) \/ pageSize.value < 1
         THEN /\ res' = ErrorResponse(400, "Invalid 'size' (page size) provided")
              /\ call' = NoCall
         ELSE /\ res' = Response(200, result)
              /\ call' = [fn |-> "getBooksPaginatedAndFiltered",
                          args |-> <<filters, pageNum.value, pageSize.value>>,
                          ret |-> result]
      /\ UNCHANGED <<books, nextBookId, assignedIds>>

\* app.get('/api/books/:id')
GetBook(id) ==
   LET numericId == ParseInt(id)
       book == getBookById(books, id)
   IN /\ req' = [method |-> "GET", route |-> "/api/books/:id", id |-> id,
                 query |-> NoQuery, body |-> NoBody]
      /\ IF InvalidId(numericId)
         THEN /\ res' = ErrorResponse(400, "Invalid Book ID provided")
              /\ call' = NoCall
         ELSE /\ call' = [fn |-> "getBookById", args |-> <<id>>, ret |-> book]
              /\ IF ~IsPresent(book)
                 THEN res' = ErrorResponse(404, "Book not found")
                 ELSE res' = Response(200, book[1])
      /\ UNCHANGED <<books, nextBookId, assignedIds>>

\* app.post('/api/books')
PostBook(bookData) ==
   LET added == addBook(books, nextBookId, bookData)
   IN /\ req' = [method |-> "POST", route |-> "/api/books", id |-> Str_empty,
                 query |-> NoQuery, body |-> bookData]
      /\ IF \/ ~TruthyString(bookData.title)
            \/ ~TruthyString(bookData.author)
            \/ ~TruthyString(bookData.isbn)
         THEN /\ res' = ErrorResponse(400, "Missing required fields")
              /\ call' = NoCall
              /\ UNCHANGED <<books, nextBookId, assignedIds>>
         ELSE /\ nextBookId < InitialNextBookId + MaxCreates
              /\ books' = added.books
              /\ nextBookId' = added.nextBookId
              /\ assignedIds' = assignedIds \cup {added.ret.id}
              /\ call' = [fn |-> "addBook", args |-> <<bookData>>, ret |-> added.ret]
              /\ res' = Response(201, added.ret)

\* app.put('/api/books/:id')
PutBook(id, updateData) ==
   LET numericId == ParseInt(id)
       updated == updateBook(books, numericId.value, updateData)
   IN /\ req' = [method |-> "PUT", route |-> "/api/books/:id", id |-> id,
                 query |-> NoQuery, body |-> updateData]
      /\ IF InvalidId(numericId)
         THEN /\ res' = ErrorResponse(400, "Invalid Book ID provided")
              /\ call' = NoCall
              /\ UNCHANGED books
         ELSE IF HasNoKeys(updateData)
         THEN /\ res' = ErrorResponse(400, "No update data provided")
              /\ call' = NoCall
              /\ UNCHANGED books
         ELSE /\ books' = updated.books
              /\ call' = [fn |-> "updateBook",
                          args |-> <<numericId.value, updateData>>,
                          ret |-> updated.ret]
              /\ IF ~IsPresent(updated.ret)
                 THEN res' = ErrorResponse(404, "Book not found")
                 ELSE res' = Response(200, updated.ret[1])
      /\ UNCHANGED <<nextBookId, assignedIds>>

\* app.delete('/api/books/:id')
DeleteBook(id) ==
   LET numericId == ParseInt(id)
       deleted == deleteBook(books, numericId.value)
   IN /\ req' = [method |-> "DELETE", route |-> "/api/books/:id", id |-> id,
                 query |-> NoQuery, body |-> NoBody]
      /\ IF InvalidId(numericId)
         THEN /\ res' = ErrorResponse(400, "Invalid Book ID provided")
              /\ call' = NoCall
              /\ UNCHANGED books
         ELSE /\ books' = deleted.books
              /\ call' = [fn |-> "deleteBook", args |-> <<numericId.value>>,
                          ret |-> deleted.ret]
              /\ IF ~deleted.ret
                 THEN res' = ErrorResponse(404, "Book not found")
                 ELSE res' = Response(204, [empty |-> TRUE])
      /\ UNCHANGED <<nextBookId, assignedIds>>

Next ==
   \/ \E query \in Queries : GetBooks(query)
   \/ \E id \in IdParams : GetBook(id)
   \/ \E bookData \in PostBodies : PostBook(bookData)
   \/ \E id \in IdParams, updateData \in PutBodies : PutBook(id, updateData)
   \/ \E id \in IdParams : DeleteBook(id)

Spec == Init /\ [][Next]_vars

-----------------------------------------------------------------------------
(* Properties *)

\* the ids of the records of a list, and the records that carry a given id
IdsOf(bs) == {bs[i].id : i \in 1..Len(bs)}

IndicesOf(bs, id) == {i \in 1..Len(bs) : bs[i].id = id}

UniqueIds(bs) == \A i, j \in 1..Len(bs) : bs[i].id = bs[j].id => i = j

\* the list bs without its i-th record
WithoutIndex(bs, i) == SubSeq(bs, 1, i - 1) \o SubSeq(bs, i + 1, Len(bs))

\* C1: a create returns a record whose id is strictly greater than every id
\* assigned before it (preloaded or created, deleted since or not), and no
\* two records of the store ever share an id.
C1_FreshIds ==
   [][ /\ UniqueIds(books) /\ UniqueIds(books')
       /\ call'.fn = "addBook" =>
             /\ \A i \in assignedIds : call'.ret.id > i
             /\ \A i \in IdsOf(books) : call'.ret.id > i ]_vars

\* a second create, made after a record was deleted
C1_Witness ==
   /\ call.fn = "addBook"
   /\ call.ret.id = InitialNextBookId + 1
   /\ \E i \in assignedIds : i \notin IdsOf(books)

\* C2: update on an existing id sets exactly the fields among title, author,
\* yearOfRelease and isbn whose payload value is truthy, keeps every other
\* field, the id and isBorrowed whatever keys the payload carries, and keeps
\* every other record and the position of the record.
C2_UpdateFrame ==
   [][ (call'.fn = "updateBook" /\ IndicesOf(books, call'.args[1]) # {}) =>
          LET u == call'.args[2]
              i == CHOOSE k \in IndicesOf(books, call'.args[1]) : TRUE
              old == books[i]
              new == books'[i]
              Given(o, falsy) == o # Absent /\ o # Present(falsy)
          IN /\ Len(books') = Len(books)
             /\ \A j \in 1..Len(books) : j # i => books'[j] = books[j]
             /\ new.id = old.id
             /\ new.isBorrowed = old.isBorrowed
             /\ new.title = IF Given(u.title, <<>>) THEN u.title[1] ELSE old.title
             /\ new.author = IF Given(u.author, <<>>) THEN u.author[1] ELSE old.author
             /\ new.yearOfRelease = IF Given(u.yearOfRelease, 0)
                                    THEN u.yearOfRelease[1] ELSE old.yearOfRelease
             /\ new.isbn = IF Given(u.isbn, <<>>) THEN u.isbn[1] ELSE old.isbn
             /\ call'.ret = Present(new) ]_vars

\* an update whose empty title, zero year and empty isbn kept the values of
\* an earlier update, and whose author was taken
C2_Witness ==
   /\ call.fn = "updateBook"
   /\ call.args[2].title = Present(Str_empty)
   /\ call.args[2].yearOfRelease = Present(0)
   /\ IsPresent(call.ret)
   /\ call.ret[1].title = Str_New
   /\ call.ret[1].yearOfRelease = 1999
   /\ call.ret[1].isbn = Str_i2
   /\ call.ret[1].author = Str_Zed
   /\ call.ret[1].id = 104
   /\ ~call.ret[1].isBorrowed

\* C3: delete returns false and leaves the store unchanged when no record
\* has the id; otherwise it returns true and removes exactly that record,
\* the others unchanged and in the same order.
C3_DeleteExactlyOne ==
   [][ call'.fn = "deleteBook" =>
          LET found == IndicesOf(books, call'.args[1])
          IN IF found = {}
             THEN call'.ret = FALSE /\ books' = books
             ELSE /\ call'.ret = TRUE
                  /\ \E i \in found : books' = WithoutIndex(books, i)
                  /\ Len(books') = Len(books) - 1 ]_vars

\* a preloaded record was deleted from the middle of a list that holds a
\* created record
C3_Witness ==
   /\ call.fn = "deleteBook"
   /\ call.args[1] = 104
   /\ call.ret = TRUE
   /\ 104 \notin IdsOf(books)
   /\ InitialNextBookId \in IdsOf(books)

-----------------------------------------------------------------------------
(* Properties of the query *)

\* two characters are the same letter up to case, or the same character
SameIgnoringCase(c, d) ==
   \/ c = d
   \/ c >= 65 /\ c <= 90 /\ d = c + 32
   \/ d >= 65 /\ d <= 90 /\ c = d + 32

\* sub occurs in s at some position, case ignored
OccursIgnoringCase(s, sub) ==
   \E i \in 0..(Len(s) - Len(sub)) :
      \A k \in 1..Len(sub) : SameIgnoringCase(s[i + k], sub[k])

\* the four filters of a query, each on one record
PassesTitle(b, f) == OccursIgnoringCase(b.title, f.title[1])

PassesAuthor(b, f) == OccursIgnoringCase(b.author, f.author[1])

PassesYear(b, f) == NumberToString(b.yearOfRelease) = f.year[1]

PassesBorrowed(b, f) == b.isBorrowed = (ToLowerCase(f.isBorrowed[1]) = Str_true)

\* the selection when every filter whose value is defined is applied
SelectedIfDefined(bs, f) ==
   LET Pass(b) == /\ IsPresent(f.title) => PassesTitle(b, f)
                  /\ IsPresent(f.author) => PassesAuthor(b, f)
                  /\ IsPresent(f.year) => PassesYear(b, f)
                  /\ IsPresent(f.isBorrowed) => PassesBorrowed(b, f)
   IN SelectSeq(bs, Pass)

\* the selection when title, author and year are applied if defined and not
\* the empty string, and isBorrowed if defined
SelectedIfNonEmpty(bs, f) ==
   LET Used(o) == IsPresent(o) /\ o # Present(Str_empty)
       Pass(b) == /\ Used(f.title) => PassesTitle(b, f)
                  /\ Used(f.author) => PassesAuthor(b, f)
                  /\ Used(f.year) => PassesYear(b, f)
                  /\ IsPresent(f.isBorrowed) => PassesBorrowed(b, f)
   IN SelectSeq(bs, Pass)

\* the result r is a page of the selection sel: its count is totalItems and
\* its books are the records of sel from the page's first position on
IsPageOf(r, sel, page, pageSize) ==
   /\ r.pagination.totalItems = Len(sel)
   /\ \A k \in 1..Len(r.books) :
         /\ (page - 1) * pageSize + k <= Len(sel)
         /\ r.books[k] = sel[(page - 1) * pageSize + k]
   /\ (Len(sel) <= pageSize /\ page = 1) => Len(r.books) = Len(sel)

\* C4 as stated: the query selects, in store order, the records that pass
\* every filter whose value is defined (title and author case-insensitive
\* substring, year equal as strings, isBorrowed equal as booleans), and
\* totalItems counts that selection.
C4_FiltersWhenDefined ==
   call.fn = "getBooksPaginatedAndFiltered" =>
      IsPageOf(call.ret, SelectedIfDefined(books, call.args[1]),
               call.args[2], call.args[3])

\* C4 amended: the query selects, in store order, the records that pass the
\* title, author and year filters whose value is defined and not the empty
\* string, and the isBorrowed filter if its value is defined; an empty
\* title, author or year filters nothing.
C4_FiltersWhenNonEmpty ==
   call.fn = "getBooksPaginatedAndFiltered" =>
      IsPageOf(call.ret, SelectedIfNonEmpty(books, call.args[1]),
               call.args[2], call.args[3])

\* the query title=THE, year= (empty), isBorrowed=TRUE on a store where it
\* selects some records but not all: the borrowed ones with "the" in the
\* title, of whatever year
C4_Witness ==
   /\ call.fn = "getBooksPaginatedAndFiltered"
   /\ call.args[1].title = Present(Str_THE)
   /\ call.args[1].year = Present(Str_empty)
   /\ call.args[1].isBorrowed = Present(Str_TRUE)
   /\ call.ret.pagination.totalItems > 1
   /\ call.ret.pagination.totalItems < Len(books)
   /\ Len(call.ret.books) = call.ret.pagination.totalItems
   /\ \A k \in 1..Len(call.ret.books) : call.ret.books[k].isBorrowed
   /\ \E k \in 1..Len(call.ret.books) :
         call.ret.books[k].yearOfRelease # call.ret.books[1].yearOfRelease

\* C5: for page >= 1 and pageSize >= 1, totalPages is ceil(totalItems /
\* pageSize), books is the slice [(page-1)*pageSize, (page-1)*pageSize +
\* pageSize) of the filtered set in insertion order, at most pageSize
\* records; a page above totalPages has no books and the same totalItems,
\* totalPages and the requested page as currentPage.
C5_Pagination ==
   (call.fn = "getBooksPaginatedAndFiltered" /\ call.args[2] >= 1 /\ call.args[3] >= 1) =>
      LET page == call.args[2]
          pageSize == call.args[3]
          sel == SelectedIfNonEmpty(books, call.args[1])
          r == call.ret
          first == (page - 1) * pageSize
          expected == IF Len(sel) - first <= 0 THEN 0
                      ELSE IF Len(sel) - first < pageSize THEN Len(sel) - first
                      ELSE pageSize
      IN /\ r.pagination.totalItems = Len(sel)
         /\ r.pagination.totalPages * pageSize >= Len(sel)
         /\ (r.pagination.totalPages - 1) * pageSize < Len(sel)
         /\ r.pagination.totalPages >= 0
         /\ r.pagination.currentPage = page
         /\ r.pagination.pageSize = pageSize
         /\ Len(r.books) = expected
         /\ Len(r.books) <= pageSize
         /\ \A k \in 1..Len(r.books) : r.books[k] = sel[first + k]
         /\ page > r.pagination.totalPages => r.books = <<>>

\* the last, partly filled page of a selection, and a page beyond is reached
\* in another state
C5_Witness ==
   /\ call.fn = "getBooksPaginatedAndFiltered"
   /\ call.args[2] = 2
   /\ call.args[3] = 2
   /\ call.ret.pagination.totalItems = 3
   /\ call.ret.pagination.totalPages = 2
   /\ Len(call.ret.books) = 1

\* C9: on the preloaded set, author=tolkien, page=1, size=2 returns the two
\* records 104 and 107, totalItems 3 and totalPages 2.
C9_TolkienExample ==
   (/\ books = InitialBooks
    /\ req.method = "GET" /\ req.route = "/api/books"
    /\ req.query = [NoQuery EXCEPT !.author = Present(Str_tolkien),
                                   !.page = Present(Str_1),
                                   !.size = Present(Str_2)]) =>
      /\ res.status = 200
      /\ Len(res.body.books) = 2
      /\ res.body.books[1] = InitialBooks[4] /\ res.body.books[1].id = 104
      /\ res.body.books[2] = InitialBooks[7] /\ res.body.books[2].id = 107
      /\ res.body.pagination.totalItems = 3
      /\ res.body.pagination.totalPages = 2

\* the example request was served from the unmodified preloaded set
C9_Witness ==
   /\ books = InitialBooks
   /\ nextBookId = InitialNextBookId
   /\ req.method = "GET" /\ req.route = "/api/books"
   /\ req.query.author = Present(Str_tolkien)
   /\ req.query.page = Present(Str_1)
   /\ req.query.size = Present(Str_2)
   /\ res.status = 200
   /\ Len(res.body.books) = 2


-----------------------------------------------------------------------------
(* Properties of the HTTP layer *)

\* C6: GET, PUT and DELETE on /books/:id answer 400 when the id does not
\* parse to an integer >= 1 (PUT also when the body has no keys), otherwise
\* 404 when no record has the id at that moment, otherwise 200 with the
\* book, 200 with the updated book, or 204 with an empty body; a 400 or 404
\* leaves the list and the counter unchanged, and GET never changes them.
C6_ItemRoutes ==
   [][ req'.route = "/api/books/:id" =>
          LET n == ParseInt(req'.id)
              badId == IsNaN(n) \/ n.value < 1
              emptyPut == req'.method = "PUT" /\ req'.body = NoBody
              exists == ~badId /\ n.value \in IdsOf(books)
              unchanged == books' = books /\ nextBookId' = nextBookId
          IN /\ (badId \/ emptyPut) => res'.status = 400
             /\ (~badId /\ ~emptyPut /\ ~exists) => res'.status = 404
             /\ (~badId /\ ~emptyPut /\ exists) =>
                   \/ /\ req'.method = "GET"
                      /\ res'.status = 200
                      /\ res'.body.id = n.value
                      /\ \E i \in 1..Len(books) : books[i] = res'.body
                   \/ /\ req'.method = "PUT"
                      /\ res'.status = 200
                      /\ res'.body.id = n.value
                      /\ \E i \in 1..Len(books') : books'[i] = res'.body
                   \/ /\ req'.method = "DELETE"
                      /\ res'.status = 204
                      /\ res'.body = [empty |-> TRUE]
                      /\ n.value \notin IdsOf(books')
             /\ res'.status \in {400, 404} => unchanged
             /\ req'.method = "GET" => unchanged ]_vars

\* GET on a preloaded id answers 404 once that record has been deleted
C6_Witness ==
   /\ req.method = "GET"
   /\ req.id = Str_104
   /\ res.status = 404
   /\ call.fn = "getBookById"
   /\ 104 \in assignedIds

\* C7: POST /books answers 400 and creates nothing when title, author or
\* isbn is missing or empty; otherwise 201 with the created record, appended
\* at the end of the list with isBorrowed false and the title, author,
\* yearOfRelease and isbn of the request.
C7_Post ==
   [][ req'.method = "POST" =>
          LET d == req'.body
              Missing(o) == o = Absent \/ o = Present(Str_empty)
          IN IF Missing(d.title) \/ Missing(d.author) \/ Missing(d.isbn)
             THEN /\ res'.status = 400
                  /\ books' = books
                  /\ nextBookId' = nextBookId
             ELSE /\ res'.status = 201
                  /\ books' = Append(books, res'.body)
                  /\ res'.body.isBorrowed = FALSE
                  /\ res'.body.title = d.title[1]
                  /\ res'.body.author = d.author[1]
                  /\ res'.body.yearOfRelease = d.yearOfRelease[1]
                  /\ res'.body.isbn = d.isbn[1] ]_vars

\* a created record is last in the list, not borrowed although the request
\* said so, under an id that is not the one of the request
C7_Witness ==
   /\ req.method = "POST"
   /\ res.status = 201
   /\ books[Len(books)] = res.body
   /\ req.body.isBorrowed = Present(TRUE)
   /\ ~res.body.isBorrowed
   /\ res.body.id # req.body.id[1]
   /\ res.body.title = Str_Silmarillion

\* what GET /books does with page p and size s, each a parse result
ListOutcome(p, s) ==
   IF IsNaN(p) \/ p.value < 1 \/ IsNaN(s) \/ s.value < 1
   THEN res.status = 400 /\ call.fn = "none"
   ELSE /\ res.status = 200
        /\ call.fn = "getBooksPaginatedAndFiltered"
        /\ call.args[2] = p.value /\ call.args[2] >= 1
        /\ call.args[3] = s.value /\ call.args[3] >= 1
        /\ res.body = call.ret

Parsed(n) == [isNaN |-> FALSE, value |-> n]

\* C8 as stated: GET /books uses page 1 when page is absent and size 10 when
\* size is absent; it answers 400 without querying the repository when page
\* or size does not parse to an integer >= 1, otherwise 200 with the query
\* result for the parsed page and size.
C8_DefaultsWhenAbsent ==
   (req.method = "GET" /\ req.route = "/api/books") =>
      ListOutcome(IF IsPresent(req.query.page)
                  THEN ParseInt(req.query.page[1]) ELSE Parsed(1),
                  IF IsPresent(req.query.size)
                  THEN ParseInt(req.query.size[1]) ELSE Parsed(10))

\* C8 amended: GET /books uses page 1 when page is absent or the empty
\* string and size 10 when size is absent or the empty string; it answers
\* 400 without querying the repository when a non-empty page or size does
\* not parse to an integer >= 1, otherwise 200 with the query result for
\* the parsed page and size, so the repository is never called with
\* page < 1 or pageSize < 1.
C8_DefaultsWhenAbsentOrEmpty ==
   (req.method = "GET" /\ req.route = "/api/books") =>
      ListOutcome(IF IsPresent(req.query.page) /\ req.query.page[1] # Str_empty
                  THEN ParseInt(req.query.page[1]) ELSE Parsed(1),
                  IF IsPresent(req.query.size) /\ req.query.size[1] # Str_empty
                  THEN ParseInt(req.query.size[1]) ELSE Parsed(10))

\* page= and size= given empty: the first page of ten is served
C8_Witness ==
   /\ req.method = "GET" /\ req.route = "/api/books"
   /\ req.query.page = Present(Str_empty)
   /\ req.query.size = Present(Str_empty)
   /\ res.status = 200
   /\ call.fn = "getBooksPaginatedAndFiltered"
   /\ call.args[2] = 1
   /\ call.args[3] = 10

\* C10: after any sequence of POST, PUT and DELETE requests every record of
\* the store has a non-empty title, a non-empty author and a non-empty isbn.
C10_RequiredFieldsNonEmpty ==
   \A i \in 1..Len(books) :
      /\ books[i].title # Str_empty
      /\ books[i].author # Str_empty
      /\ books[i].isbn # Str_empty

\* a created record went through a PUT that carried an empty title and an
\* empty isbn
C10_Witness ==
   /\ req.method = "PUT"
   /\ req.id = Str_121
   /\ req.body.title = Present(Str_empty)
   /\ req.body.isbn = Present(Str_empty)
   /\ res.status = 200
   /\ res.body.title = Str_Silmarillion
   /\ res.body.isbn = Str_i1

====
